---- MODULE Spec2Model ----
(***************************************************************************)
(* Document Assistant: the React front end (HomePage upload scheduler and   *)
(* document list, ChatPage ask loop, api service), the Electron main        *)
(* process, and the ingestion/deletion core the front end calls over HTTP. *)
(***************************************************************************)
EXTENDS Integers, Sequences, FiniteSets, TLC

(***************************************************************************)
(* Bounds of the model.                                                    *)
(***************************************************************************)
\* Largest number of PDF files in one selection.
MaxFiles == 6
\* Largest selection in which two files carry the same name, and largest batch
\* for which upload progress events are delivered.
MaxSmallBatch == 3
\* Largest number of upload progress events delivered during one batch.
MaxProgress == 1
\* Largest number of questions sent in one chat session.
MaxAsks == 3
\* Largest number of upload and delete requests the core receives.
MaxRequests == 3
\* Largest number of clicks on a delete button of the home page.
MaxDeletes == 2
\* Largest number of check-backend-status invocations over IPC.
MaxIpc == 2
\* Largest number of windows the activate handler creates.
MaxActivations == 2

(***************************************************************************)
(* Program constants.                                                      *)
(***************************************************************************)
\* uploadWithConcurrency(queue, 5)
maxConcurrent == 5

VARIABLES
    \* ---- HomePage (upload) ----
    uploadQueue,   \* React state: sequence of {file, name, status, progress, error}
    batch,         \* the local `queue` array of handleFileUpload (immutable objects)
    pending,       \* local `pending` array of uploadWithConcurrency (item indices)
    active,        \* local `active` Set of uploadWithConcurrency
    runPc,         \* where the run of handleFileUpload/uploadWithConcurrency is
    inflight,      \* upload requests issued by api.post and not yet settled
    startOrder,    \* history: the items in the order their request was issued
    outcome,       \* history: how each item's request settled
    nProgress,     \* how many progress events the batch has received
    summary,       \* the {completed, failed} numbers of the last batch summary
    alertShown,    \* the window.alert the last step showed ("none": it showed none)
    \* ---- HomePage (document list, status badge) ----
    documents,     \* React state: the documents of the last listing
    docsLoading,   \* React state `loading` of HomePage
    backendStatus, \* React state: 'checking', 'connected' or 'disconnected'
    healthReq,     \* the GET /health of checkBackend: "pending", "ok" or "failed"
    listReq,       \* the GET /documents issued on mount: "pending" or "settled"
    deleteLog,     \* history: per click on a delete button, the document, whether
                   \* the user confirmed, and how the DELETE request settled
    gone,          \* history: the documents whose delete succeeded and that no
                   \* upload has stored since
    listExcl,      \* per GET /documents in flight (mount, refresh): the documents
                   \* that were gone when it was issued and are not stored since
    detached,      \* the run of uploadWithConcurrency that a HomePage started
                   \* before it was unmounted, as far as it is still going on
    \* ---- ChatPage ----
    messages,      \* React state: sequence of {type, content, sources?}; `req` is the
                   \* request in whose handleSend call the entry was appended
    inputValue,    \* React state: the text of the textarea
    loading,       \* React state
    docName,       \* location.state?.docName || null
    askReq,        \* the POST /ask request in flight, or NoReq
    abandoned,     \* requests that timed out in axios while the server still works
    askLog,        \* history: per request, its question and how it settled
    location,      \* useLocation(): the state the chat was navigated to with
    \* ---- ingestion / deletion core ----
    lexIndex,      \* Lexical Index: set of index records (chunk, doc)
    vecStore,      \* Vector Store: set of index records (chunk, doc)
    docs,          \* the documents: set of (name, hash, chunk_count)
    cache,         \* Document Cache: its keys, least recently used first
    reqs,          \* per worker, the upload or delete request it is serving
    flagged,       \* content hashes for which IndexConsistencyError was raised
    epoch,         \* history: per content hash, how many deletes have succeeded
    uploadLog,     \* history: the successful uploads, in the order they were decided
    nRequests,     \* how many requests have been received
    \* ---- Electron main process ----
    platform,      \* process.platform
    appState,      \* "starting", "ready" (whenReady resolved) or "quit"
    backendProcess,\* the module variable: "undefined", or the spawned child
    startTimer,    \* the 3000 ms timer of whenReady: "none", "armed" or "fired"
    windows,       \* BrowserWindow.getAllWindows().length
    mainWindow,    \* the module variable: "undefined", "window" (a BrowserWindow)
                   \* or "null"
    mainLog,       \* history: spawn, timer, createWindow and kill, in order
    ipcReq,        \* the check-backend-status invocation in progress
    ipcLog         \* history: per invocation, how fetch settled and the reply

homeVars == <<uploadQueue, batch, pending, active, runPc, inflight, startOrder,
              outcome, nProgress, summary, alertShown>>

pageVars == <<documents, docsLoading, backendStatus, healthReq, listReq, deleteLog,
              gone, listExcl>>

chatVars == <<messages, inputValue, loading, docName, askReq, abandoned, askLog,
              location>>

coreVars == <<lexIndex, vecStore, docs, cache, reqs, flagged, epoch, uploadLog,
              nRequests>>

mainVars == <<platform, appState, backendProcess, startTimer, windows, mainWindow,
              mainLog, ipcReq, ipcLog>>

navVars == <<detached>>

vars == <<homeVars, pageVars, navVars, chatVars, coreVars, mainVars>>

\* What the steps of one component leave alone.
notHomeVars == <<navVars, chatVars, coreVars, mainVars>>
notChatVars == <<homeVars, pageVars, navVars, coreVars, mainVars>>
notCoreVars == <<homeVars, pageVars, navVars, chatVars, mainVars>>
notMainVars == <<homeVars, pageVars, navVars, chatVars, coreVars>>
\* What the steps of the upload scheduler leave alone, and what the steps of
\* the document list leave alone.
notUploadVars == <<pageVars, navVars, chatVars, coreVars, mainVars>>
uploadRunVars == <<uploadQueue, batch, pending, active, runPc, inflight, startOrder,
                   outcome, nProgress, summary>>
notPageVars == <<uploadRunVars, navVars, chatVars, coreVars, mainVars>>
\* What the home page and the runs it started leave alone.
offHomeVars == <<chatVars, coreVars, mainVars>>

(***************************************************************************)
(* Files and selections.  A file name is a base and an extension; the      *)
(* File object itself is identified by its place in the selection.         *)
(***************************************************************************)
FileName(b, e) == [base |-> b, ext |-> e]

\* file.name.endsWith('.pdf')
IsPdfName(nm) == nm.ext = "pdf"

\* The selections offered to the file input: n PDF files with distinct names,
\* in small selections optionally the last one carrying the name of the first,
\* optionally preceded
\* by a file that is no PDF (one with an upper-case extension, which the
\* accept=".pdf" dialog lets through, or a text file).
PdfSelection(n, dup) ==
    [i \in 1..n |-> IF dup /\ i = n /\ n > 1 THEN FileName(1, "pdf")
                    ELSE FileName(i, "pdf")]

Selections ==
    {PdfSelection(n, FALSE) : n \in 0..MaxFiles}
    \cup {PdfSelection(n, TRUE) : n \in 2..MaxSmallBatch}
    \cup {<<FileName(1, ext)>> \o PdfSelection(n, FALSE) :
             n \in 0..(MaxFiles - 1), ext \in {"PDF", "txt"}}

\* files.filter(file => file.name.endsWith('.pdf'))
AllFiles(files) == files
PdfFiles(files) == SelectSeq(files, IsPdfName)

\* pdfFiles.map(file => ({file, name, status: 'waiting', progress: 0, error: null}))
NewQueue(pdfFiles) ==
    [i \in 1..Len(pdfFiles) |->
        [file |-> i, name |-> pdfFiles[i], status |-> "waiting",
         progress |-> 0, error |-> "null"]]

(***************************************************************************)
(* uploadFile's queue updates: prev.map(q => q.name === item.name ? ... )  *)
(***************************************************************************)
MarkUploading(uq, nm) ==
    [k \in 1..Len(uq) |->
        IF uq[k].name = nm THEN [uq[k] EXCEPT !.status = "uploading"] ELSE uq[k]]

MarkProgress(uq, nm, p) ==
    [k \in 1..Len(uq) |->
        IF uq[k].name = nm THEN [uq[k] EXCEPT !.progress = p] ELSE uq[k]]

MarkCompleted(uq, nm) ==
    [k \in 1..Len(uq) |->
        IF uq[k].name = nm
        THEN [uq[k] EXCEPT !.status = "completed", !.progress = 100]
        ELSE uq[k]]

MarkError(uq, nm, msg) ==
    [k \in 1..Len(uq) |->
        IF uq[k].name = nm
        THEN [uq[k] EXCEPT !.status = "error", !.error = msg]
        ELSE uq[k]]

(***************************************************************************)
(* The document list of the home page: listings, cards, rendering.         *)
(***************************************************************************)
\* An element of a listing as list_documents() gives it: {name, chunk_count}
ListedDoc(name, n) == [name |-> name, chunk_count |-> n]

\* An element of a listing as the document card reads it: {name, collections}
CardDoc(name, colls) == [name |-> name, collections |-> colls]

\* The names of the documents the backend lists.
ListedNames == <<FileName(1, "pdf"), FileName(2, "pdf")>>

\* The listings GET /documents answers with: no document, or two documents in
\* either of the two forms.
Listings ==
    {<<>>,
     [k \in 1..Len(ListedNames) |-> ListedDoc(ListedNames[k], k)],
     [k \in 1..Len(ListedNames) |-> CardDoc(ListedNames[k], <<"default">>)]}

\* How apiService.listDocuments() settles: response.data, or a rejection.
ListOk(data) == [ok |-> TRUE, data |-> data]
ListFailed == [ok |-> FALSE, data |-> <<>>]
ListResponses == {ListOk(l) : l \in Listings} \cup {ListFailed}

\* What the backend can answer to a GET /documents: a failure, or a listing
\* without the documents that were deleted before the request was issued and
\* not stored again.
Answerable(resp, excl) ==
    resp.ok => \A k \in 1..Len(resp.data) : resp.data[k].name \notin excl

\* loadDocuments: try { setDocuments(docs) } catch { console.error }
OnListSettled(prev, resp) == IF resp.ok THEN resp.data ELSE prev

\* The card of a document: <h3>{doc.name}</h3> <p>{doc.collections.length} ...
\* Reading .length of an undefined doc.collections throws a TypeError.
CardRenders(doc) == "collections" \in DOMAIN doc
Card(doc) == [name |-> doc.name, collections |-> Len(doc.collections)]

\* The documents section as rendered: the loading notice, the empty state, or
\* the grid of cards; "error" when rendering a card throws.
View(kind, cards) == [view |-> kind, cards |-> cards]
RenderDocuments(list, ld) ==
    IF ld THEN View("loading", <<>>)
    ELSE IF Len(list) = 0 THEN View("empty", <<>>)
    ELSE IF \E k \in 1..Len(list) : ~CardRenders(list[k]) THEN View("error", <<>>)
    ELSE View("grid", [k \in 1..Len(list) |-> Card(list[k])])

\* The page is on screen: no render of it has thrown.
PageRendered == RenderDocuments(documents, docsLoading).view # "error"

(***************************************************************************)
(* The scheduler of uploadWithConcurrency.                                 *)
(***************************************************************************)
\* active.size < maxConcurrent
SlotFreeOffByOne(act) == Cardinality(act) <= maxConcurrent
SlotFree(act) == Cardinality(act) < maxConcurrent

\* pending.shift(): the item taken and the items left
ShiftSkipping(pend) ==
    [item |-> Head(pend), rest |-> IF Len(pend) > 1 THEN Tail(Tail(pend)) ELSE <<>>]
TakeLast(pend) == [item |-> pend[Len(pend)], rest |-> SubSeq(pend, 1, Len(pend) - 1)]
Shift(pend) == [item |-> Head(pend), rest |-> Tail(pend)]

\* while (pending.length > 0 || active.size > 0)
LoopWhilePendingOnly(pend, act) == Len(pend) > 0
LoopWhileActiveOnly(pend, act) == Cardinality(act) > 0
LoopContinues(pend, act) == Len(pend) > 0 \/ Cardinality(act) > 0

\* while (active.size < maxConcurrent && pending.length > 0) { shift; add; uploadFile }
\* uploadFile runs synchronously up to its await: it marks the entry 'uploading'
\* and issues the request.
RECURSIVE StartUploads(_, _, _, _, _)
StartUploads(pend, act, uq, names, order) ==
    IF SlotFree(act) /\ Len(pend) > 0
    THEN LET t == Shift(pend)
         IN  StartUploads(t.rest, act \cup {t.item},
                          MarkUploading(uq, names[t.item].name), names,
                          Append(order, t.item))
    ELSE [pending |-> pend, active |-> act, queue |-> uq, order |-> order]

\* queue.filter(q => q.status === st).length, read from the local queue array
CountStatus(q, st) == Cardinality({k \in 1..Len(q) : q[k].status = st})

\* Math.round((loaded * 100) / total)
PercentCompleted(loaded, total) == (loaded * 200 + total) \div (2 * total)

\* The progress events the browser delivers for a request.
ProgressEvents == {[loaded |-> 1, total |-> 2]}

\* error.message of a rejected upload
UploadErrorMessages == {"Request failed with status code 500"}

\* A window.alert of the home page: which message, and the numbers in it.
Alert(kind, a, b) == [kind |-> kind, a |-> a, b |-> b]
NoAlert == Alert("none", 0, 0)

\* A run of uploadWithConcurrency by its locals: the queue array, pending,
\* active, and where it is.
Run(q, pend, act, pc) == [queue |-> q, pending |-> pend, active |-> act, pc |-> pc]
NoRun == Run(<<>>, <<>>, {}, "none")

InitHome ==
    /\ uploadQueue = <<>>
    /\ batch = <<>>
    /\ pending = <<>>
    /\ active = {}
    /\ runPc = "idle"
    /\ inflight = {}
    /\ startOrder = <<>>
    /\ outcome = <<>>
    /\ nProgress = 0
    /\ summary = [completed |-> 0, failed |-> 0]
    /\ alertShown = NoAlert
    /\ detached = NoRun

\* handleFileUpload, up to the first await of uploadWithConcurrency.
handleFileUpload(files) ==
    /\ UNCHANGED notUploadVars
    /\ uploadQueue = <<>>              \* <input disabled={uploadQueue.length > 0}>
    /\ runPc = "idle"
    /\ PageRendered
    /\ LET pdfFiles == PdfFiles(files)
           queue == NewQueue(pdfFiles)
           s == StartUploads([i \in 1..Len(queue) |-> i], {}, queue, queue, <<>>)
       IN  IF Len(files) = 0
           THEN /\ alertShown' = NoAlert
                /\ UNCHANGED <<uploadQueue, batch, pending, active, runPc, inflight,
                               startOrder, outcome, nProgress, summary>>
           ELSE IF Len(pdfFiles) = 0
           THEN /\ alertShown' = Alert("pdfOnly", 0, 0)
                /\ UNCHANGED <<uploadQueue, batch, pending, active, runPc, inflight,
                               startOrder, outcome, nProgress, summary>>
           ELSE /\ alertShown' = IF Len(pdfFiles) # Len(files)
                                THEN Alert("excluded", Len(files) - Len(pdfFiles), 0)
                                ELSE NoAlert
                /\ batch' = queue
                /\ uploadQueue' = s.queue
                /\ pending' = s.pending
                /\ active' = s.active
                /\ inflight' = s.active
                /\ startOrder' = s.order
                /\ outcome' = [i \in 1..Len(queue) |-> "none"]
                /\ nProgress' = 0
                /\ runPc' = "waitTimer"
                /\ UNCHANGED summary

\* The 100 ms timer of the scheduler loop fires: the loop condition is tested,
\* and either free slots are filled or the loop ends and loadDocuments is called.
Poll ==
    /\ UNCHANGED notHomeVars
    /\ UNCHANGED <<documents, docsLoading, backendStatus, healthReq, listReq, deleteLog,
                   gone>>
    /\ runPc = "waitTimer"
    /\ alertShown' = NoAlert
    /\ IF LoopContinues(pending, active)
       THEN LET s == StartUploads(pending, active, uploadQueue, batch, startOrder)
            IN  /\ uploadQueue' = s.queue
                /\ pending' = s.pending
                /\ active' = s.active
                /\ inflight' = inflight \cup (s.active \ active)
                /\ startOrder' = s.order
                /\ UNCHANGED <<batch, runPc, outcome, nProgress, summary, listExcl>>
       ELSE /\ runPc' = "refreshing"
            /\ listExcl' = [listExcl EXCEPT !.refresh = gone]
            /\ UNCHANGED <<uploadQueue, batch, pending, active, inflight, startOrder,
                           outcome, nProgress, summary>>

\* onUploadProgress of an upload in flight.  The callback only writes the
\* progress field of queue entries, so progress events are explored for the
\* small batches and left out of the large ones.
UploadProgress(i, ev) ==
    /\ UNCHANGED notUploadVars
    /\ i \in inflight
    /\ Len(batch) <= MaxSmallBatch
    /\ nProgress < MaxProgress
    /\ nProgress' = nProgress + 1
    /\ uploadQueue' = MarkProgress(uploadQueue, batch[i].name,
                                   PercentCompleted(ev.loaded, ev.total))
    /\ alertShown' = NoAlert
    /\ UNCHANGED <<batch, pending, active, runPc, inflight, startOrder, outcome,
                   summary>>

\* apiService.uploadDocument resolves: the try block's update, then finally
UploadResolve(i) ==
    /\ UNCHANGED notHomeVars
    /\ UNCHANGED <<documents, docsLoading, backendStatus, healthReq, listReq, deleteLog>>
    /\ gone' = gone \ {batch[i].name}
    /\ listExcl' = [r \in DOMAIN listExcl |-> listExcl[r] \ {batch[i].name}]
    /\ i \in inflight
    /\ uploadQueue' = MarkCompleted(uploadQueue, batch[i].name)
    /\ active' = active \ {i}
    /\ inflight' = inflight \ {i}
    /\ outcome' = [outcome EXCEPT ![i] = "ok"]
    /\ alertShown' = NoAlert
    /\ UNCHANGED <<batch, pending, runPc, startOrder, nProgress, summary>>

\* apiService.uploadDocument rejects: the catch block's update, then finally
UploadReject(i, msg) ==
    /\ UNCHANGED notUploadVars
    /\ i \in inflight
    /\ uploadQueue' = MarkError(uploadQueue, batch[i].name, msg)
    /\ active' = active \ {i}
    /\ inflight' = inflight \ {i}
    /\ outcome' = [outcome EXCEPT ![i] = "fail"]
    /\ alertShown' = NoAlert
    /\ UNCHANGED <<batch, pending, runPc, startOrder, nProgress, summary>>

\* loadDocuments settles (either way); the summary is computed from the local
\* queue array and shown, and the 3 s queue reset is scheduled.
RefreshSettled(resp) ==
    /\ UNCHANGED notHomeVars
    /\ runPc = "refreshing"
    /\ Answerable(resp, listExcl.refresh)
    /\ documents' = OnListSettled(documents, resp)
    /\ docsLoading' = FALSE
    /\ UNCHANGED <<backendStatus, healthReq, listReq, deleteLog, gone, listExcl>>
    /\ LET completed == CountStatus(batch, "completed")
           failed == CountStatus(batch, "error")
       IN  /\ summary' = [completed |-> completed, failed |-> failed]
           /\ alertShown' = IF failed = 0
                           THEN Alert("allUploaded", completed, 0)
                           ELSE Alert("doneAndFailed", completed, failed)
    /\ runPc' = "clearWait"
    /\ UNCHANGED <<uploadQueue, batch, pending, active, inflight, startOrder, outcome,
                   nProgress>>

\* setUploadQueue([])
KeepEntries(uq) == uq
Cleared(uq) == <<>>

\* setTimeout(() => setUploadQueue([]), 3000)
ClearQueue ==
    /\ UNCHANGED notUploadVars
    /\ runPc = "clearWait"
    /\ uploadQueue' = Cleared(uploadQueue)
    /\ runPc' = "idle"
    /\ alertShown' = NoAlert
    /\ UNCHANGED <<batch, pending, active, inflight, startOrder, outcome, nProgress, summary>>

NextUpload ==
    \/ \E files \in Selections : handleFileUpload(files)
    \/ Poll
    \/ \E i \in inflight, ev \in ProgressEvents : UploadProgress(i, ev)
    \/ \E i \in inflight : UploadResolve(i)
    \/ \E i \in inflight, msg \in UploadErrorMessages : UploadReject(i, msg)
    \/ \E resp \in ListResponses : RefreshSettled(resp)
    \/ ClearQueue


(***************************************************************************)
(* HomePage: the mount effect (checkBackend, loadDocuments) and delete.    *)
(***************************************************************************)
\* How the DELETE /documents/{doc_name} request is answered: success, the
\* not_found of an unknown document, a server error, or no answer at all.
DeleteReplies == {"success", "not_found", "error", "unreachable"}

\* apiService.deleteDocument resolves on a success status and throws otherwise.
AlwaysResolves(reply) == TRUE
DeleteResolves(reply) == reply = "success"

\* prev.filter(doc => doc.name !== docName)
WithoutDoc(prev, nm) == SelectSeq(prev, LAMBDA d : d.name # nm)

\* catch (error) { setBackendStatus('disconnected') }
StaysChecking == "checking"
OnHealthFailed == "disconnected"

DeleteEntry(nm, confirmed, out) == [name |-> nm, confirmed |-> confirmed, outcome |-> out]

\* useState of the list and the badge, and the requests of the mount effect.
InitPage ==
    /\ documents = <<>>
    /\ docsLoading = TRUE
    /\ backendStatus = "checking"
    /\ healthReq = "pending"
    /\ listReq = "pending"
    /\ deleteLog = <<>>
    /\ gone = {}
    /\ listExcl = [mount |-> {}, refresh |-> {}]

\* checkBackend: apiService.checkHealth() resolves
HealthResolve ==
    /\ UNCHANGED notPageVars
    /\ healthReq = "pending"
    /\ healthReq' = "ok"
    /\ backendStatus' = "connected"
    /\ alertShown' = NoAlert
    /\ UNCHANGED <<documents, docsLoading, listReq, deleteLog, gone, listExcl>>

\* checkBackend: apiService.checkHealth() rejects
HealthReject ==
    /\ UNCHANGED notPageVars
    /\ healthReq = "pending"
    /\ healthReq' = "failed"
    /\ backendStatus' = OnHealthFailed
    /\ alertShown' = NoAlert
    /\ UNCHANGED <<documents, docsLoading, listReq, deleteLog, gone, listExcl>>

\* loadDocuments of the mount effect settles
ListSettled(resp) ==
    /\ UNCHANGED notPageVars
    /\ listReq = "pending"
    /\ Answerable(resp, listExcl.mount)
    /\ listReq' = "settled"
    /\ documents' = OnListSettled(documents, resp)
    /\ docsLoading' = FALSE
    /\ alertShown' = NoAlert
    /\ UNCHANGED <<backendStatus, healthReq, deleteLog, gone, listExcl>>

\* handleDelete, up to the await: the click on the delete button of the card
\* of document nm, and the user's answer to window.confirm.
handleDelete(nm, confirmed) ==
    /\ UNCHANGED notPageVars
    /\ RenderDocuments(documents, docsLoading).view = "grid"
    /\ \E k \in 1..Len(documents) : documents[k].name = nm
    /\ Len(deleteLog) < MaxDeletes
    /\ deleteLog' = Append(deleteLog,
                           DeleteEntry(nm, confirmed,
                                       IF confirmed THEN "pending" ELSE "none"))
    /\ alertShown' = NoAlert
    /\ UNCHANGED <<documents, docsLoading, backendStatus, healthReq, listReq, gone,
                   listExcl>>

\* handleDelete after the await: the DELETE request of click i settles
DeleteSettled(i, reply) ==
    /\ UNCHANGED notPageVars
    /\ deleteLog[i].outcome = "pending"
    /\ IF DeleteResolves(reply)
       THEN /\ documents' = WithoutDoc(documents, deleteLog[i].name)
            /\ alertShown' = Alert("deleted", 0, 0)
       ELSE /\ alertShown' = Alert("deleteFailed", 0, 0)
            /\ UNCHANGED documents
    /\ deleteLog' = [deleteLog EXCEPT ![i].outcome = reply]
    /\ gone' = IF reply = "success" THEN gone \cup {deleteLog[i].name} ELSE gone
    /\ UNCHANGED <<docsLoading, backendStatus, healthReq, listReq, listExcl>>

(***************************************************************************)
(* Navigation: HomePage is unmounted when the chat is opened and a new     *)
(* HomePage is mounted when the user comes back.  The async functions the  *)
(* old HomePage started keep running; their state setters belong to the    *)
(* unmounted component and change nothing on screen.                       *)
(***************************************************************************)
\* A state setter of an unmounted component is called with value v while the
\* mounted component's state is cur.
SetOnUnmounted(cur, v) == cur

\* navigate('/chat') on the home page, then navigate('/') on the chat page:
\* the new HomePage starts from its useState values and runs the mount
\* effect; a batch that was running goes on detached from the page.
Remount ==
    /\ UNCHANGED offHomeVars
    /\ PageRendered
    /\ detached = NoRun
    /\ \A i \in 1..Len(deleteLog) : deleteLog[i].outcome # "pending"
    /\ detached' = IF runPc = "idle" THEN NoRun ELSE Run(batch, pending, active, runPc)
    /\ uploadQueue' = <<>>
    /\ batch' = <<>>
    /\ pending' = <<>>
    /\ active' = {}
    /\ runPc' = "idle"
    /\ inflight' = {}
    /\ startOrder' = <<>>
    /\ outcome' = <<>>
    /\ nProgress' = 0
    /\ alertShown' = NoAlert
    /\ documents' = <<>>
    /\ docsLoading' = TRUE
    /\ backendStatus' = "checking"
    /\ healthReq' = "pending"
    /\ listReq' = "pending"
    /\ listExcl' = [mount |-> gone, refresh |-> {}]
    /\ UNCHANGED <<summary, deleteLog, gone>>

\* The 100 ms timer of a detached run fires.
DetachedPoll ==
    /\ UNCHANGED offHomeVars
    /\ detached.pc = "waitTimer"
    /\ alertShown' = NoAlert
    /\ IF LoopContinues(detached.pending, detached.active)
       THEN LET s == StartUploads(detached.pending, detached.active, <<>>,
                                  detached.queue, <<>>)
            IN  /\ detached' = [detached EXCEPT !.pending = s.pending,
                                                !.active = s.active]
                /\ uploadQueue' = SetOnUnmounted(uploadQueue, s.queue)
       ELSE /\ detached' = [detached EXCEPT !.pc = "refreshing"]
            /\ UNCHANGED uploadQueue
    /\ UNCHANGED <<batch, pending, active, runPc, inflight, startOrder, outcome,
                   nProgress, summary>>
    /\ UNCHANGED pageVars

\* An upload of a detached run settles: its queue update, then finally
DetachedSettle(i, ok) ==
    /\ UNCHANGED offHomeVars
    /\ i \in detached.active
    /\ detached' = [detached EXCEPT !.active = detached.active \ {i}]
    /\ uploadQueue' = SetOnUnmounted(uploadQueue, <<>>)
    /\ alertShown' = NoAlert
    /\ gone' = IF ok THEN gone \ {detached.queue[i].name} ELSE gone
    /\ listExcl' = IF ok
                   THEN [r \in DOMAIN listExcl |-> listExcl[r] \ {detached.queue[i].name}]
                   ELSE listExcl
    /\ UNCHANGED <<batch, pending, active, runPc, inflight, startOrder, outcome,
                   nProgress, summary>>
    /\ UNCHANGED <<documents, docsLoading, backendStatus, healthReq, listReq, deleteLog>>

\* loadDocuments of a detached run settles: its setDocuments and setLoading
\* reach the unmounted component; the summary is shown all the same.
DetachedRefreshSettled(resp) ==
    /\ UNCHANGED offHomeVars
    /\ detached.pc = "refreshing"
    /\ documents' = SetOnUnmounted(documents, OnListSettled(documents, resp))
    /\ docsLoading' = SetOnUnmounted(docsLoading, FALSE)
    /\ LET completed == CountStatus(detached.queue, "completed")
           failed == CountStatus(detached.queue, "error")
       IN  /\ summary' = [completed |-> completed, failed |-> failed]
           /\ alertShown' = IF failed = 0
                           THEN Alert("allUploaded", completed, 0)
                           ELSE Alert("doneAndFailed", completed, failed)
    /\ detached' = [detached EXCEPT !.pc = "clearWait"]
    /\ UNCHANGED <<uploadQueue, batch, pending, active, runPc, inflight, startOrder,
                   outcome, nProgress>>
    /\ UNCHANGED <<backendStatus, healthReq, listReq, deleteLog, gone, listExcl>>

\* The 3 s timer of a detached run fires: setUploadQueue([])
DetachedClear ==
    /\ UNCHANGED offHomeVars
    /\ detached.pc = "clearWait"
    /\ uploadQueue' = SetOnUnmounted(uploadQueue, Cleared(uploadQueue))
    /\ detached' = NoRun
    /\ alertShown' = NoAlert
    /\ UNCHANGED <<batch, pending, active, runPc, inflight, startOrder, outcome,
                   nProgress, summary>>
    /\ UNCHANGED pageVars

\* The selections of the user who uploads a listed document again.
Reselections == {PdfSelection(1, FALSE)}

NextPage ==
    \/ HealthResolve
    \/ HealthReject
    \/ \E resp \in ListResponses : ListSettled(resp)
    \/ \E k \in 1..Len(documents), confirmed \in BOOLEAN :
          handleDelete(documents[k].name, confirmed)
    \/ \E i \in 1..Len(deleteLog), reply \in DeleteReplies : DeleteSettled(i, reply)


(***************************************************************************)
(* The api service: the axios instance and its response interceptor.       *)
(***************************************************************************)
\* The stage of the ask pipeline a server-side failure is reported for.
Stages == {"retrieval", "reranking", "generation"}

\* An error as axios hands it to the interceptor: its code, its message, and
\* the stage named in the response body (error.response.data), if any.
ApiError(code, message, stage) == [code |-> code, message |-> message, stage |-> stage]

ConnRefused == ApiError("ECONNREFUSED", "connect ECONNREFUSED 127.0.0.1:8000", "none")
\* timeout: 300000
TimedOut == ApiError("ECONNABORTED", "timeout of 300000ms exceeded", "none")
ServerError(stage) == ApiError("ERR_BAD_RESPONSE", "Request failed with status code 500", stage)

AskFailures == {ConnRefused} \cup {ServerError(st) : st \in Stages}

\* api.interceptors.response.use(response => response, error => ...)
\* (the message of the new Error is "Backend 서버가 실행되지 않았습니다.")
RejectInterceptor(error) ==
    IF error.code = "ECONNREFUSED"
    THEN ApiError("none", "Backend server is not running", "none")
    ELSE error

(***************************************************************************)
(* ChatPage.                                                               *)
(***************************************************************************)
\* Texts are sequences of characters.
IsSpace(c) == c = " "

RECURSIVE TrimStart(_)
TrimStart(t) == IF t # <<>> /\ IsSpace(Head(t)) THEN TrimStart(Tail(t)) ELSE t

RECURSIVE TrimEnd(_)
TrimEnd(t) ==
    IF t # <<>> /\ IsSpace(t[Len(t)]) THEN TrimEnd(SubSeq(t, 1, Len(t) - 1)) ELSE t

\* String.prototype.trim
Trim(t) == TrimEnd(TrimStart(t))

\* What the user types into the textarea.
InputTexts == {<<>>, <<" ">>, <<"a">>, <<" ", "b">>, <<"a", " ">>}

\* location.state of the chat page.  A card navigates with
\* {state: {docName: doc.name}}; the global button navigates with no state, and
\* location.state?.docName is then undefined.
CardChat(name) == [docName |-> name]
GlobalChat == [docName |-> "undefined"]
NavStates == {GlobalChat, CardChat("doc1.pdf")}

\* location.state?.docName || null
DocNameOf(state) == IF state.docName \in {"undefined", ""} THEN "null" ELSE state.docName

\* The docName a chat is opened with: null (global chat) or a document's name.
DocNames == {DocNameOf(st) : st \in NavStates}

\* apiService.askQuestion(question, docName): the body of the POST /ask
AskUnscoped(r, question, name) == [id |-> r, question |-> question, doc_name |-> "null"]
askQuestion(r, question, name) == [id |-> r, question |-> question, doc_name |-> name]

NoReq == [id |-> 0, question |-> <<>>, doc_name |-> "null"]

\* The answer the server gives to a question.
AnswerTo(question) == <<"answer to">> \o question

Source(d, p, sec, conf) == [doc_name |-> d, page |-> p, toc_section |-> sec, confidence |-> conf]

\* A source as the chat page shows it: the source-doc, source-page and
\* source-section spans of a source-item.
SourceItem(source) ==
    [doc_name |-> source.doc_name, page |-> source.page,
     toc_section |-> source.toc_section]

\* message.sources && message.sources.length > 0 && message.sources.map(...)
SourcesShown(message) ==
    IF "sources" \in DOMAIN message /\ Len(message.sources) > 0
    THEN [j \in 1..Len(message.sources) |-> SourceItem(message.sources[j])]
    ELSE <<>>

\* The sources lists of a response.
SourceLists == {<<>>, <<Source("doc1.pdf", 2, "s1", 90)>>}

\* {type: 'user', content: userMessage}
UserEntry(r, text) == [type |-> "user", content |-> text, req |-> r]

\* {type: 'assistant', content: response.answer, sources: response.sources}
AssistantEntry(r, response) ==
    [type |-> "assistant", content |-> response.answer,
     sources |-> response.sources, req |-> r]

\* {type: 'error', content: '... 오류가 발생했습니다: ' + error.message}
DegradedAnswerEntry(r, error) ==
    [type |-> "assistant", content |-> <<"an error occurred: ", error.message>>,
     sources |-> <<>>, req |-> r]
ErrorEntry(r, error) ==
    [type |-> "error", content |-> <<"an error occurred: ", error.message>>, req |-> r]

\* A response that arrives for a request axios has already timed out: the
\* request was aborted and its promise is settled, so nothing is appended.
MergeLateResponse(msgs, r, response) == Append(msgs, AssistantEntry(r, response))
OnLateResponse(msgs, r, response) == msgs

LogEntry(q, out, st) == [question |-> q, outcome |-> out, stage |-> st]

\* if (!inputValue.trim() || loading) return;
NeverIgnored(text, ld) == FALSE
SendIgnored(text, ld) == Trim(text) = <<>> \/ ld

\* finally { setLoading(false) }
StaysLoading == TRUE
AfterSettle == FALSE

InitChat ==
    /\ messages = <<>>
    /\ inputValue = <<>>
    /\ loading = FALSE
    /\ location \in NavStates      \* the chat is opened on a card or globally
    /\ docName = DocNameOf(location)
    /\ askReq = NoReq
    /\ abandoned = {}
    /\ askLog = <<>>

\* onChange of the textarea (disabled={loading})
SetInputValue(t) ==
    /\ UNCHANGED notChatVars
    /\ ~loading
    /\ inputValue' = t
    /\ UNCHANGED <<messages, loading, docName, location, askReq, abandoned, askLog>>

\* handleSend, up to the await of apiService.askQuestion
handleSend ==
    /\ UNCHANGED notChatVars
    /\ Len(askLog) < MaxAsks
    /\ IF SendIgnored(inputValue, loading)
       THEN UNCHANGED chatVars
       ELSE LET userMessage == Trim(inputValue)
                r == Len(askLog) + 1
            IN  /\ inputValue' = <<>>
                /\ messages' = Append(messages, UserEntry(r, userMessage))
                /\ loading' = TRUE
                /\ askReq' = askQuestion(r, userMessage, docName)
                /\ askLog' = Append(askLog, LogEntry(userMessage, "pending", "none"))
                /\ UNCHANGED <<docName, location, abandoned>>

\* apiService.askQuestion resolves: the try block, then finally
AskResolve(srcs) ==
    /\ UNCHANGED notChatVars
    /\ askReq # NoReq
    /\ LET response == [answer |-> AnswerTo(askReq.question), sources |-> srcs]
       IN  messages' = Append(messages, AssistantEntry(askReq.id, response))
    /\ loading' = AfterSettle
    /\ askReq' = NoReq
    /\ askLog' = [askLog EXCEPT ![askReq.id].outcome = "ok"]
    /\ UNCHANGED <<inputValue, docName, location, abandoned>>

\* apiService.askQuestion rejects: the catch block, then finally
AskReject(err) ==
    /\ UNCHANGED notChatVars
    /\ askReq # NoReq
    /\ messages' = Append(messages, ErrorEntry(askReq.id, RejectInterceptor(err)))
    /\ loading' = AfterSettle
    /\ askReq' = NoReq
    /\ askLog' = [askLog EXCEPT ![askReq.id].outcome = "failed", ![askReq.id].stage = err.stage]
    /\ UNCHANGED <<inputValue, docName, location, abandoned>>

\* The axios timeout of the request elapses: it rejects like any failure, and
\* the server goes on working on the abandoned request.
AskTimeout ==
    /\ UNCHANGED notChatVars
    /\ askReq # NoReq
    /\ messages' = Append(messages, ErrorEntry(askReq.id, RejectInterceptor(TimedOut)))
    /\ loading' = AfterSettle
    /\ abandoned' = abandoned \cup {askReq.id}
    /\ askReq' = NoReq
    /\ askLog' = [askLog EXCEPT ![askReq.id].outcome = "timeout"]
    /\ UNCHANGED <<inputValue, docName, location>>

\* The server finishes an abandoned request and its response reaches the client.
LateResponse(r, srcs) ==
    /\ UNCHANGED notChatVars
    /\ r \in abandoned
    /\ LET response == [answer |-> AnswerTo(askLog[r].question), sources |-> srcs]
       IN  messages' = OnLateResponse(messages, r, response)
    /\ abandoned' = abandoned \ {r}
    /\ UNCHANGED <<inputValue, loading, docName, location, askReq, askLog>>

NextChat ==
    \/ \E t \in InputTexts : SetInputValue(t)
    \/ handleSend
    \/ \E srcs \in SourceLists : AskResolve(srcs)
    \/ \E err \in AskFailures : AskReject(err)
    \/ AskTimeout
    \/ \E r \in abandoned, srcs \in SourceLists : LateResponse(r, srcs)


(***************************************************************************)
(* The ingestion and deletion core (Query Orchestrator entry points upload *)
(* and delete_document, Document Cache, Lexical Index, Vector Store).      *)
(***************************************************************************)
Hashes == {"h1", "h2"}

\* The uploads offered: (content hash of the bytes, filename).  The same bytes
\* come under two names; one name never carries two contents.
UploadInputs == {<<"h1", "x.pdf">>, <<"h1", "y.pdf">>, <<"h2", "z.pdf">>}

CoreNames == {in[2] : in \in UploadInputs}

\* The workers serving requests concurrently.
Workers == {1, 2}

Stores == {"lex", "vec"}

\* Capacity of the Document Cache (entries).
CacheCapacity == 1

\* process(document, text, config) is deterministic: the chunks of a content.
ChunkCount(h) == IF h = "h1" THEN 2 ELSE 1

\* chunk ID = document hash + sequence number
ChunkIds(h) == {<<h, n>> : n \in 1..ChunkCount(h)}

IndexRecords(h, name) == {[chunk |-> c, doc |-> name] : c \in ChunkIds(h)}

RecordsOfHash(store, h) == {r \in store : r.chunk \in ChunkIds(h)}

NoResult == [status |-> "none", document_name |-> "none", chunk_count |-> 0, error |-> "none"]
Ok(name, n) == [status |-> "ok", document_name |-> name, chunk_count |-> n, error |-> "none"]
Failed(err) == [status |-> "error", document_name |-> "none", chunk_count |-> 0, error |-> err]
NotFound == [status |-> "not_found", document_name |-> "none", chunk_count |-> 0, error |-> "NotFoundError"]

IdleReq ==
    [kind |-> "idle", h |-> "none", name |-> "none", pc |-> "idle",
     wrote |-> {}, processed |-> FALSE, compensated |-> FALSE, result |-> NoResult]

DocOfHash(h) == {d \in docs : d.hash = h}
DocOfName(nm) == {d \in docs : d.name = nm}

\* Mutations of one document are serialized: the document is locked from the
\* first index mutation of a request to its end.
\* A worker takes a request when it serves none: it is idle, or the response
\* of its last request has been sent.  Requests go to the first free worker.
Free(q) == reqs[q].pc \in {"idle", "done", "failed"}
FirstFree(q) == Free(q) /\ \A p \in Workers : p < q => ~Free(p)

LockPcs == {"write", "compensate", "removeLex", "removeVec", "invalidate"}
Locked(h) == \E q \in Workers : reqs[q].h = h /\ reqs[q].pc \in LockPcs

\* A production (invocation of producer_fn) for the key is in progress.
NeverInFlight(h) == FALSE
ProductionInFlight(h) == \E q \in Workers : reqs[q].h = h /\ reqs[q].pc = "producing"

\* The cache with key h most recently used, evicting the least recently used
\* entry when over capacity.
Touch(c, h) == SelectSeq(c, LAMBDA k : k # h) \o <<h>>
Store(c, h) ==
    LET t == Touch(c, h)
    IN  IF Len(t) > CacheCapacity THEN Tail(t) ELSE t

\* Invalidation of the entry keyed by a content hash.
KeepEntry(c, h) == c
Invalidate(c, h) == SelectSeq(c, LAMBDA k : k # h)

\* upsert(records) / index(records): the store with the records written, a
\* record of the same chunk ID being replaced.
Upsert(store, recs) ==
    {r \in store : \A n \in recs : n.chunk # r.chunk} \cup recs

\* remove(chunk_ids) / delete(chunk_ids)
Remove(store, ids) == {r \in store : r.chunk \notin ids}

\* The check an upload makes for a document of the same content hash.
NeverExisting(h) == {}
ExistingDoc(h) == DocOfHash(h)

\* The failure upload surfaces after one index write failed and the other
\* store had been written: the compensating delete is issued first.
SurfaceWithoutCompensating(q) ==
    [reqs[q] EXCEPT !.pc = "failed", !.result = Failed("IndexWriteError")]
OnSecondWriteFailed(q) == [reqs[q] EXCEPT !.pc = "compensate"]

\* A successful upload, as decided: its result, the stores it wrote, whether
\* it processed the document (invoked or joined a production), and whether it
\* was decided on receipt.
LogUpload(d, wrote, processed, onReceipt) ==
    [h |-> d.hash, name |-> d.name, chunk_count |-> d.chunk_count, epoch |-> epoch[d.hash],
     wrote |-> wrote, processed |-> processed, onReceipt |-> onReceipt]

InitCore ==
    /\ lexIndex = {}
    /\ vecStore = {}
    /\ docs = {}
    /\ cache = <<>>
    /\ reqs = [q \in Workers |-> IdleReq]
    /\ flagged = {}
    /\ epoch = [h \in Hashes |-> 0]
    /\ uploadLog = <<>>
    /\ nRequests = 0

\* upload(file bytes, filename) is received by a free worker.  Idempotence on
\* the content hash: a re-upload returns the existing document's name and
\* chunk count without reprocessing.
BeginUpload(q, in) ==
    /\ UNCHANGED notCoreVars
    /\ FirstFree(q)
    /\ nRequests < MaxRequests
    /\ nRequests' = nRequests + 1
    /\ LET r == [IdleReq EXCEPT !.kind = "upload", !.h = in[1], !.name = in[2]]
       IN  IF ExistingDoc(in[1]) # {}
           THEN LET d == CHOOSE d \in ExistingDoc(in[1]) : TRUE
                IN  /\ reqs' = [reqs EXCEPT ![q] =
                                  [r EXCEPT !.pc = "done",
                                            !.result = Ok(d.name, d.chunk_count)]]
                    /\ uploadLog' = Append(uploadLog, LogUpload(d, {}, FALSE, TRUE))
           ELSE /\ reqs' = [reqs EXCEPT ![q] = [r EXCEPT !.pc = "cache"]]
                /\ UNCHANGED uploadLog
    /\ UNCHANGED <<lexIndex, vecStore, docs, cache, flagged, epoch>>

\* get_or_create(content_hash, config_hash, producer_fn): a hit returns the
\* stored chunks; a miss joins the production in flight for the key, or
\* invokes producer_fn when there is none.
GetOrCreate(q) ==
    /\ UNCHANGED notCoreVars
    /\ reqs[q].pc = "cache"
    /\ LET h == reqs[q].h
       IN  IF \E k \in 1..Len(cache) : cache[k] = h
           THEN /\ cache' = Touch(cache, h)
                /\ reqs' = [reqs EXCEPT ![q].pc = "lock"]
           ELSE IF ProductionInFlight(h)
           THEN /\ reqs' = [reqs EXCEPT ![q].pc = "joined", ![q].processed = TRUE]
                /\ UNCHANGED cache
           ELSE /\ reqs' = [reqs EXCEPT ![q].pc = "producing", ![q].processed = TRUE]
                /\ UNCHANGED cache
    /\ UNCHANGED <<lexIndex, vecStore, docs, flagged, epoch, uploadLog, nRequests>>

\* producer_fn returns: the chunks are stored under the key; the callers that
\* joined the production are released with the same chunks.
ProductionDone(q) ==
    /\ UNCHANGED notCoreVars
    /\ reqs[q].pc = "producing"
    /\ cache' = Store(cache, reqs[q].h)
    /\ reqs' = [p \in Workers |->
                  IF p = q \/ (reqs[p].pc = "joined" /\ reqs[p].h = reqs[q].h)
                  THEN [reqs[p] EXCEPT !.pc = "lock"]
                  ELSE reqs[p]]
    /\ UNCHANGED <<lexIndex, vecStore, docs, flagged, epoch, uploadLog, nRequests>>

\* The embedding of the chunks fails after the retries: nothing was written.
EmbeddingUnavailable(q) ==
    /\ UNCHANGED notCoreVars
    /\ reqs[q].pc = "lock"
    /\ reqs' = [reqs EXCEPT ![q].pc = "failed",
                            ![q].result = Failed("EmbeddingUnavailableError")]
    /\ UNCHANGED <<lexIndex, vecStore, docs, cache, flagged, epoch, uploadLog, nRequests>>

\* The upload takes the document's lock for the dual index write; a document
\* of the same content created meanwhile is returned instead.
AcquireLock(q) ==
    /\ UNCHANGED notCoreVars
    /\ reqs[q].pc = "lock"
    /\ ~Locked(reqs[q].h)
    /\ IF ExistingDoc(reqs[q].h) # {}
       THEN LET d == CHOOSE d \in ExistingDoc(reqs[q].h) : TRUE
            IN  /\ reqs' = [reqs EXCEPT ![q].pc = "done",
                                        ![q].result = Ok(d.name, d.chunk_count)]
                /\ uploadLog' = Append(uploadLog,
                                       LogUpload(d, {}, reqs[q].processed, FALSE))
       ELSE /\ reqs' = [reqs EXCEPT ![q].pc = "write"]
            /\ UNCHANGED uploadLog
    /\ UNCHANGED <<lexIndex, vecStore, docs, cache, flagged, epoch, nRequests>>

\* One of the two index writes of an upload, in either order.  When both are
\* written the document exists; when the first write fails nothing was
\* written; when the second fails the written store is compensated.
WriteStore(q, st, ok) ==
    /\ UNCHANGED notCoreVars
    /\ reqs[q].pc = "write"
    /\ st \notin reqs[q].wrote
    /\ LET h == reqs[q].h
           nm == reqs[q].name
           recs == IndexRecords(h, nm)
           both == reqs[q].wrote \cup {st} = Stores
           doc == [name |-> nm, hash |-> h, chunk_count |-> ChunkCount(h)]
       IN  IF ok
           THEN /\ lexIndex' = IF st = "lex" THEN Upsert(lexIndex, recs) ELSE lexIndex
                /\ vecStore' = IF st = "vec" THEN Upsert(vecStore, recs) ELSE vecStore
                /\ IF both
                   THEN /\ docs' = docs \cup {doc}
                        /\ reqs' = [reqs EXCEPT ![q].pc = "done", ![q].wrote = Stores,
                                                ![q].result = Ok(nm, ChunkCount(h))]
                        /\ uploadLog' = Append(uploadLog,
                                          LogUpload(doc, Stores, reqs[q].processed, FALSE))
                   ELSE /\ reqs' = [reqs EXCEPT ![q].wrote = {st}]
                        /\ UNCHANGED <<docs, uploadLog>>
           ELSE /\ reqs' = [reqs EXCEPT ![q] =
                              IF reqs[q].wrote = {}
                              THEN [reqs[q] EXCEPT !.pc = "failed",
                                                   !.result = Failed("IndexWriteError")]
                              ELSE OnSecondWriteFailed(q)]
                /\ UNCHANGED <<lexIndex, vecStore, docs, uploadLog>>
    /\ UNCHANGED <<cache, flagged, epoch, nRequests>>

\* The compensating delete against the already-written store; when it fails
\* too, IndexConsistencyError is raised and the hash is flagged.
Compensate(q, ok) ==
    /\ UNCHANGED notCoreVars
    /\ reqs[q].pc = "compensate"
    /\ LET h == reqs[q].h
       IN  IF ok
           THEN /\ lexIndex' = IF "lex" \in reqs[q].wrote
                               THEN Remove(lexIndex, ChunkIds(h)) ELSE lexIndex
                /\ vecStore' = IF "vec" \in reqs[q].wrote
                               THEN Remove(vecStore, ChunkIds(h)) ELSE vecStore
                /\ reqs' = [reqs EXCEPT ![q].pc = "failed", ![q].wrote = {},
                                        ![q].compensated = TRUE,
                                        ![q].result = Failed("IndexWriteError")]
                /\ UNCHANGED flagged
           ELSE /\ flagged' = flagged \cup {h}
                /\ reqs' = [reqs EXCEPT ![q].pc = "failed",
                                        ![q].result = Failed("IndexConsistencyError")]
                /\ UNCHANGED <<lexIndex, vecStore>>
    /\ UNCHANGED <<docs, cache, epoch, uploadLog, nRequests>>

\* delete_document(doc_name) is received by a free worker.
BeginDelete(q, nm) ==
    /\ UNCHANGED notCoreVars
    /\ FirstFree(q)
    /\ nRequests < MaxRequests
    /\ nRequests' = nRequests + 1
    /\ reqs' = [reqs EXCEPT ![q] = [IdleReq EXCEPT !.kind = "delete", !.name = nm,
                                                  !.pc = "find"]]
    /\ UNCHANGED <<lexIndex, vecStore, docs, cache, flagged, epoch, uploadLog>>

\* The document is looked up by name; an unknown name is not_found, a known
\* one is locked for the removal.
FindDocument(q) ==
    /\ UNCHANGED notCoreVars
    /\ reqs[q].pc = "find"
    /\ IF DocOfName(reqs[q].name) = {}
       THEN reqs' = [reqs EXCEPT ![q].pc = "done", ![q].result = NotFound]
       ELSE LET d == CHOOSE d \in DocOfName(reqs[q].name) : TRUE
            IN  /\ ~Locked(d.hash)
                /\ reqs' = [reqs EXCEPT ![q].pc = "removeLex", ![q].h = d.hash]
    /\ UNCHANGED <<lexIndex, vecStore, docs, cache, flagged, epoch, uploadLog, nRequests>>

\* remove(chunk_ids) on the Lexical Index
RemoveLexical(q) ==
    /\ UNCHANGED notCoreVars
    /\ reqs[q].pc = "removeLex"
    /\ lexIndex' = Remove(lexIndex, ChunkIds(reqs[q].h))
    /\ reqs' = [reqs EXCEPT ![q].pc = "removeVec"]
    /\ UNCHANGED <<vecStore, docs, cache, flagged, epoch, uploadLog, nRequests>>

\* delete(chunk_ids) on the Vector Store
RemoveVector(q) ==
    /\ UNCHANGED notCoreVars
    /\ reqs[q].pc = "removeVec"
    /\ vecStore' = Remove(vecStore, ChunkIds(reqs[q].h))
    /\ reqs' = [reqs EXCEPT ![q].pc = "invalidate"]
    /\ UNCHANGED <<lexIndex, docs, cache, flagged, epoch, uploadLog, nRequests>>

\* The cache entry of the document's content hash is invalidated, the
\* document is destroyed, and delete_document returns success.
FinishDelete(q) ==
    /\ UNCHANGED notCoreVars
    /\ reqs[q].pc = "invalidate"
    /\ cache' = Invalidate(cache, reqs[q].h)
    /\ docs' = {d \in docs : d.hash # reqs[q].h}
    /\ epoch' = [epoch EXCEPT ![reqs[q].h] = @ + 1]
    /\ reqs' = [reqs EXCEPT ![q].pc = "done",
                            ![q].result = [NoResult EXCEPT !.status = "success"]]
    /\ UNCHANGED <<lexIndex, vecStore, flagged, uploadLog, nRequests>>

NextCore ==
    \/ \E q \in Workers, in \in UploadInputs : BeginUpload(q, in)
    \/ \E q \in Workers : GetOrCreate(q)
    \/ \E q \in Workers : ProductionDone(q)
    \/ \E q \in Workers : EmbeddingUnavailable(q)
    \/ \E q \in Workers : AcquireLock(q)
    \/ \E q \in Workers, st \in Stores, ok \in BOOLEAN : WriteStore(q, st, ok)
    \/ \E q \in Workers, ok \in BOOLEAN : Compensate(q, ok)
    \/ \E q \in Workers, nm \in CoreNames : BeginDelete(q, nm)
    \/ \E q \in Workers : FindDocument(q)
    \/ \E q \in Workers : RemoveLexical(q)
    \/ \E q \in Workers : RemoveVector(q)
    \/ \E q \in Workers : FinishDelete(q)


(***************************************************************************)
(* The Electron main process.                                              *)
(***************************************************************************)
Platforms == {"darwin", "win32"}

\* How fetch('http://localhost:8000/health') settles: a response with its
\* status, or a rejection (backend unreachable).
FetchResponse(status) == [kind |-> "response", status |-> status]
FetchError == [kind |-> "error", status |-> 0]
FetchOutcomes == {FetchResponse(200), FetchResponse(404), FetchResponse(503), FetchError}

\* Response.ok
ResponseOk(status) == status >= 200 /\ status <= 299

\* What ipcRenderer.invoke('check-backend-status') settles with.
Resolved(value) == [settled |-> "resolved", value |-> value]
Rejected == [settled |-> "rejected", value |-> FALSE]

\* catch (error) { return false; }
RethrowFetchError == Rejected
OnFetchError == Resolved(FALSE)

\* try { const response = await fetch(...); return response.ok; } catch ...
CheckBackendStatus(fetched) ==
    IF fetched.kind = "response" THEN Resolved(ResponseOk(fetched.status))
    ELSE OnFetchError

\* if (backendProcess)
NeverSet(bp) == FALSE
BackendSet(bp) == bp # "undefined"

\* app.on('quit'): if (backendProcess) backendProcess.kill()
OnQuit(log, bp) == IF BackendSet(bp) THEN Append(log, "kill") ELSE log

\* createWindow(): mainWindow = new BrowserWindow(...)
NewWindow == "window"

\* mainWindow.on('closed', () => { mainWindow = null; }), registered on every
\* window that createWindow made
OnClosed == "null"

\* createWindow(), as recorded in the history
CreateWindow(log) == Append(log, "createWindow")

Count(log, ev) == Cardinality({k \in 1..Len(log) : log[k] = ev})

InitMain ==
    /\ platform \in Platforms
    /\ appState = "starting"
    /\ backendProcess = "undefined"
    /\ startTimer = "none"
    /\ windows = 0
    /\ mainWindow = "undefined"
    /\ mainLog = <<>>
    /\ ipcReq = "idle"
    /\ ipcLog = <<>>

\* app.whenReady().then(...): startBackend(), the 3000 ms timer is armed and
\* the activate handler is registered.
WhenReady ==
    /\ UNCHANGED notMainVars
    /\ appState = "starting"
    /\ appState' = "ready"
    /\ backendProcess' = "spawned"
    /\ mainLog' = Append(mainLog, "spawn")
    /\ startTimer' = "armed"
    /\ UNCHANGED <<platform, windows, mainWindow, ipcReq, ipcLog>>

\* The 3000 ms timer fires: createWindow()
StartTimerFires ==
    /\ UNCHANGED notMainVars
    /\ appState = "ready"
    /\ startTimer = "armed"
    /\ startTimer' = "fired"
    /\ windows' = windows + 1
    /\ mainWindow' = NewWindow
    /\ mainLog' = CreateWindow(Append(mainLog, "timer"))
    /\ UNCHANGED <<platform, appState, backendProcess, ipcReq, ipcLog>>

\* app.on('activate') (macOS: the dock icon is clicked or the app is
\* activated): a window is created when there is none.
Activate ==
    /\ UNCHANGED notMainVars
    /\ appState = "ready"
    /\ platform = "darwin"
    /\ windows = 0
    /\ Count(mainLog, "activate") < MaxActivations
    /\ windows' = 1
    /\ mainWindow' = NewWindow
    /\ mainLog' = CreateWindow(Append(mainLog, "activate"))
    /\ UNCHANGED <<platform, appState, backendProcess, startTimer, ipcReq, ipcLog>>

\* The user closes a window; app.on('window-all-closed') quits the app when
\* it was the last one, except on macOS.
CloseWindow ==
    /\ UNCHANGED notMainVars
    /\ appState = "ready"
    /\ windows > 0
    /\ windows' = windows - 1
    /\ mainWindow' = OnClosed
    /\ IF windows = 1 /\ platform # "darwin"
       THEN /\ appState' = "quit"
            /\ mainLog' = OnQuit(mainLog, backendProcess)
            /\ ipcReq' = "idle"
       ELSE UNCHANGED <<appState, mainLog, ipcReq>>
    /\ UNCHANGED <<platform, backendProcess, startTimer, ipcLog>>

\* The app is quit (menu, Cmd+Q, session end), possibly before it is ready.
Quit ==
    /\ UNCHANGED notMainVars
    /\ appState # "quit"
    /\ appState' = "quit"
    /\ windows' = 0
    /\ mainWindow' = IF windows > 0 THEN OnClosed ELSE mainWindow
    /\ mainLog' = OnQuit(mainLog, backendProcess)
    /\ ipcReq' = "idle"
    /\ UNCHANGED <<platform, backendProcess, startTimer, ipcLog>>

\* window.electronAPI.checkBackendStatus() is called in a window
IpcInvoke ==
    /\ UNCHANGED notMainVars
    /\ appState = "ready"
    /\ windows > 0
    /\ ipcReq = "idle"
    /\ Len(ipcLog) < MaxIpc
    /\ ipcReq' = "fetching"
    /\ UNCHANGED <<platform, appState, backendProcess, startTimer, windows, mainWindow,
                   mainLog, ipcLog>>

\* The fetch of the handler settles and the handler returns
IpcSettled(fetched) ==
    /\ UNCHANGED notMainVars
    /\ ipcReq = "fetching"
    /\ ipcReq' = "idle"
    /\ ipcLog' = Append(ipcLog, [fetch |-> fetched, reply |-> CheckBackendStatus(fetched)])
    /\ UNCHANGED <<platform, appState, backendProcess, startTimer, windows, mainWindow,
                   mainLog>>

NextMain ==
    \/ WhenReady
    \/ StartTimerFires
    \/ Activate
    \/ CloseWindow
    \/ Quit
    \/ IpcInvoke
    \/ \E fetched \in FetchOutcomes : IpcSettled(fetched)


\* The chat page as the global chat, before any question.
ChatGlobal == InitChat /\ docName = "null"

\* The main process on a platform other than macOS, before the app is ready.
MainOnWindows == InitMain /\ platform = "win32"

Init == InitHome /\ InitPage /\ InitChat /\ InitCore /\ MainOnWindows

\* The same with the chat opened as the global chat.
InitGlobalChat == InitHome /\ InitPage /\ ChatGlobal /\ InitCore /\ MainOnWindows

\* The same on either platform.
InitElectron == InitHome /\ InitPage /\ ChatGlobal /\ InitCore /\ InitMain

SpecUpload == InitGlobalChat /\ [][NextUpload]_vars

SpecChat == Init /\ [][NextChat]_vars

SpecCore == InitGlobalChat /\ [][NextCore]_vars

\* The scheduler's 100 ms timer always fires: setTimeout callbacks are run by
\* the event loop, and nothing in the page cancels this one.
FairSpecUpload == SpecUpload /\ WF_vars(Poll)

\* The same where, besides the timers, every upload request and the listing
\* request of the refresh settle (axios gives each of them a timeout).
FairSpecBatch ==
    /\ SpecUpload
    /\ WF_vars(Poll)
    /\ WF_vars(\E i \in inflight : UploadResolve(i) \/
                 \E msg \in UploadErrorMessages : UploadReject(i, msg))
    /\ WF_vars(\E resp \in ListResponses : RefreshSettled(resp))
    /\ WF_vars(ClearQueue)

SpecPage == InitGlobalChat /\ [][NextPage]_vars

\* The health request settles: axios resolves or rejects it, at the latest
\* when its timeout elapses.
FairSpecPage == SpecPage /\ WF_vars(HealthResolve \/ HealthReject)

SpecMain == InitElectron /\ [][NextMain]_vars

\* The home page with its list, its delete buttons and its uploads together.
NextHome ==
    \/ \E resp \in ListResponses : ListSettled(resp)
    \/ \E k \in 1..Len(documents), confirmed \in BOOLEAN :
          handleDelete(documents[k].name, confirmed)
    \/ \E i \in 1..Len(deleteLog), reply \in DeleteReplies : DeleteSettled(i, reply)
    \/ \E files \in Reselections : handleFileUpload(files)
    \/ Poll
    \/ \E i \in inflight : UploadResolve(i)
    \/ \E i \in inflight, msg \in UploadErrorMessages : UploadReject(i, msg)
    \/ \E resp \in ListResponses : RefreshSettled(resp)
    \/ ClearQueue

SpecHome == InitGlobalChat /\ [][NextHome]_vars

\* The home page with uploads, left for the chat and come back to.
NextNav ==
    \/ \E n \in 1..MaxSmallBatch : handleFileUpload(PdfSelection(n, FALSE))
    \/ Poll
    \/ \E i \in inflight : UploadResolve(i)
    \/ \E i \in inflight, msg \in UploadErrorMessages : UploadReject(i, msg)
    \/ \E resp \in ListResponses : RefreshSettled(resp)
    \/ ClearQueue
    \/ Remount
    \/ DetachedPoll
    \/ \E i \in detached.active, ok \in BOOLEAN : DetachedSettle(i, ok)
    \/ \E resp \in ListResponses : DetachedRefreshSettled(resp)
    \/ DetachedClear

SpecNav == InitGlobalChat /\ [][NextNav]_vars

(***************************************************************************)
(* Claims about the upload scheduler.                                      *)
(***************************************************************************)
Range(f) == {f[k] : k \in DOMAIN f}

Settled == {i \in 1..Len(outcome) : outcome[i] # "none"}

\* C1: at most 5 upload requests of a batch are in flight at any time, whatever
\* the order in which uploads complete or fail, and every file of the batch
\* that is neither in flight nor settled is still in the pending queue.
C1_BoundedUploadConcurrency ==
    /\ Cardinality(inflight) <= maxConcurrent
    /\ \A i \in 1..Len(batch) :
           (i \notin inflight /\ outcome[i] = "none") => i \in Range(pending)

\* C1 witness: a batch of more than 5 files with 5 uploads in flight and a
\* file queued.
C1_Witness ==
    /\ Len(batch) > maxConcurrent
    /\ Cardinality(inflight) = maxConcurrent
    /\ Len(pending) > 0

\* C2: uploads are started in submission order: the k-th request issued is
\* that of the k-th file of the batch, and the files still queued are the
\* rest of the batch, in order.
C2_FifoAdmission ==
    /\ \A k \in 1..Len(startOrder) : startOrder[k] = k
    /\ pending = [j \in 1..(Len(batch) - Len(startOrder)) |-> Len(startOrder) + j]

\* C2 witness: a file that had to queue has been started after a slot freed.
C2_Witness ==
    /\ Len(startOrder) > maxConcurrent
    /\ Cardinality(inflight) > 1

\* A file is waiting while fewer than 5 uploads are in flight.
WaitingWithFreeSlot == Len(pending) > 0 /\ Cardinality(inflight) < maxConcurrent

\* C3: whenever fewer than 5 uploads are in flight and a file is waiting, that
\* eventually ends, and it ends only by a step that starts a waiting file:
\* no file stays waiting forever while a slot is free, whether the slot was
\* freed by a success or by a failure.
C3_AdmittedAsSlotsFree ==
    /\ WaitingWithFreeSlot ~> ~WaitingWithFreeSlot
    /\ [][(WaitingWithFreeSlot /\ ~WaitingWithFreeSlot')
            => (Len(startOrder') > Len(startOrder) /\ Len(pending') < Len(pending))]_vars

\* C3 witness: the only upload settled so far failed, and the file that was
\* waiting has been started in the slot it freed.
C3_Witness ==
    /\ Len(startOrder) > maxConcurrent
    /\ Cardinality(Settled) = 1
    /\ \E i \in Settled : outcome[i] = "fail"

(***************************************************************************)
(* Claims about the chat page.                                             *)
(***************************************************************************)
Replies(r) == {k \in 1..Len(messages) : messages[k].req = r /\ messages[k].type # "user"}

\* C4: every question sent produces exactly one reply entry, placed right
\* after that question: an assistant entry with the answer and its sources
\* when the request succeeded, an error entry with no answer and no sources
\* when it failed; a pending question has no reply yet.
C4_AskAllOrNothing ==
    /\ Len(messages) = 2 * Len(askLog) - (IF askReq # NoReq THEN 1 ELSE 0)
    /\ \A r \in 1..Len(askLog) :
        /\ messages[2 * r - 1] = UserEntry(r, askLog[r].question)
        /\ askLog[r].outcome = "pending" <=> (askReq.id = r)
        /\ askLog[r].outcome = "pending" => Replies(r) = {}
        /\ askLog[r].outcome # "pending" => Replies(r) = {2 * r}
        /\ askLog[r].outcome = "ok" =>
              /\ messages[2 * r].type = "assistant"
              /\ messages[2 * r].content = AnswerTo(askLog[r].question)
              /\ "sources" \in DOMAIN messages[2 * r]
        /\ askLog[r].outcome \in {"failed", "timeout"} =>
              /\ messages[2 * r].type = "error"
              /\ "sources" \notin DOMAIN messages[2 * r]
              /\ messages[2 * r].content # AnswerTo(askLog[r].question)

\* C4 witness: one chat holds an answer with sources and an error entry for
\* a request that failed in the pipeline.
C4_Witness ==
    /\ \E k \in 1..Len(messages) :
          messages[k].type = "assistant" /\ messages[k].sources # <<>>
    /\ \E r \in 1..Len(askLog) :
          askLog[r].outcome = "failed" /\ askLog[r].stage = "retrieval"
          /\ Replies(r) # {}

\* C5: a request that timed out produces only the error entry for its own
\* question, and every reply entry directly follows the question of the
\* request it belongs to: a response of a timed-out or earlier request is
\* never appended as the reply to a later question.
C5_TimeoutDiscardsWork ==
    /\ \A r \in 1..Len(askLog) :
          askLog[r].outcome = "timeout" =>
              /\ Cardinality(Replies(r)) = 1
              /\ \A k \in Replies(r) : messages[k].type = "error"
    /\ \A k \in 1..Len(messages) :
          messages[k].type # "user" =>
              /\ k > 1
              /\ messages[k - 1].type = "user"
              /\ messages[k - 1].req = messages[k].req
              /\ messages[k].type = "assistant" =>
                    messages[k].content = AnswerTo(messages[k - 1].content)

\* C5 witness: a request timed out, its late response has reached the client,
\* and a later, different question has been answered.
C5_Witness ==
    \E r \in 1..Len(askLog) :
        /\ askLog[r].outcome = "timeout"
        /\ r \notin abandoned
        /\ \E q \in (r + 1)..Len(askLog) :
              /\ askLog[q].outcome = "ok"
              /\ askLog[q].question # askLog[r].question

\* C10: the error entry of every request that failed in a stage of the ask
\* pipeline (retrieval, reranking, generation) names that stage.
C10_ErrorNamesStage ==
    \A k \in 1..Len(messages) :
        (messages[k].type = "error" /\ askLog[messages[k].req].stage # "none")
            => askLog[messages[k].req].stage \in Range(messages[k].content)

(***************************************************************************)
(* Claims about the ingestion and deletion core.                           *)
(***************************************************************************)
ChunksIn(store) == {r.chunk : r \in store}

\* The compensating delete is issued before an index-write failure is
\* surfaced: a failed upload that still has a written store is one whose
\* compensating delete failed too (IndexConsistencyError, hash flagged).
CompensatedBeforeSurfacing ==
    \A q \in Workers :
        (reqs[q].pc = "failed" /\ reqs[q].wrote # {})
            => (reqs[q].result.error = "IndexConsistencyError" /\ reqs[q].h \in flagged)

Producers(h) == {q \in Workers : reqs[q].h = h /\ reqs[q].pc = "producing"}

\* C7: for every key at most one production is in progress at any time, and
\* a caller that joined is waiting on the production in flight for its key.
C7_OneProductionPerKey ==
    /\ \A h \in Hashes : Cardinality(Producers(h)) <= 1
    /\ \A q \in Workers :
          reqs[q].pc = "joined" => Cardinality(Producers(reqs[q].h) \ {q}) = 1

\* C7 witness: two concurrent uploads of the same bytes, one producing and the
\* other joined to it.
C7_Witness ==
    \E p, q \in Workers :
        /\ reqs[p].pc = "producing"
        /\ reqs[q].pc = "joined"
        /\ reqs[p].h = reqs[q].h
        /\ reqs[p].name # reqs[q].name

\* C8: of two successful uploads of the same bytes with no delete of the
\* document in between, the second returns the same document_name and
\* chunk_count as the first and writes no index record; when it was received
\* after the first had succeeded it does not process the document again.
C8_UploadIdempotent ==
    \A i, j \in 1..Len(uploadLog) :
        (i < j /\ uploadLog[i].h = uploadLog[j].h
               /\ uploadLog[i].epoch = uploadLog[j].epoch)
        => /\ uploadLog[j].name = uploadLog[i].name
           /\ uploadLog[j].chunk_count = uploadLog[i].chunk_count
           /\ uploadLog[j].wrote = {}
           /\ uploadLog[j].onReceipt => ~uploadLog[j].processed

\* C8 witness: the same bytes uploaded twice, the second time after the first
\* upload had succeeded.
C8_Witness ==
    \E i, j \in 1..Len(uploadLog) :
        /\ i < j
        /\ uploadLog[i].h = uploadLog[j].h
        /\ uploadLog[i].epoch = uploadLog[j].epoch
        /\ uploadLog[i].wrote = Stores
        /\ uploadLog[j].onReceipt

\* C9: the step by which delete_document(d) succeeds leaves no record of d in
\* either index and no cache entry for d's content hash; and an upload is
\* served chunks without processing only on a cache hit, so a later upload of
\* the same bytes processes again.
C9_DeletionComplete ==
    [][\A q \in Workers :
          /\ (reqs[q].pc = "invalidate" /\ reqs'[q].pc = "done")
                => /\ \A r \in lexIndex' \cup vecStore' : r.doc # reqs[q].name
                   /\ RecordsOfHash(lexIndex', reqs[q].h) = {}
                   /\ RecordsOfHash(vecStore', reqs[q].h) = {}
                   /\ reqs[q].h \notin Range(cache')
                   /\ DocOfName(reqs[q].name)' = {}
          /\ (reqs[q].pc = "cache" /\ reqs'[q].pc = "lock")
                => reqs[q].h \in Range(cache)]_vars

\* C9 witness: after a delete succeeded, the same bytes are uploaded again and
\* the upload is processing them.
C9_Witness ==
    \E q \in Workers :
        /\ reqs[q].kind = "upload"
        /\ reqs[q].pc = "producing"
        /\ epoch[reqs[q].h] > 0

(***************************************************************************)
(* Claims about the document list of the home page.                        *)
(***************************************************************************)
Listed(list, nm) == \E k \in 1..Len(list) : list[k].name = nm

\* C11: a click on a delete button leaves the displayed list as it is and
\* issues a DELETE request exactly when the user confirmed; when the request
\* of a click settles, the document is removed from the list if it succeeded
\* and the list is unchanged if it failed (not_found included); and the list
\* loses a document only by such a successful confirmed delete.
C11_DeleteOnlyOnSuccess ==
    [][/\ Len(deleteLog') > Len(deleteLog) =>
            /\ documents' = documents
            /\ LET e == deleteLog'[Len(deleteLog')]
               IN  /\ e.confirmed => e.outcome = "pending"
                   /\ ~e.confirmed => e.outcome = "none"
       /\ \A i \in 1..Len(deleteLog) :
            /\ deleteLog[i].outcome = "none" => deleteLog'[i].outcome = "none"
            /\ (deleteLog[i].outcome = "pending" /\ deleteLog'[i].outcome # "pending") =>
                  IF deleteLog'[i].outcome = "success"
                  THEN /\ ~Listed(documents', deleteLog[i].name)
                       /\ \A k \in 1..Len(documents) :
                             documents[k].name # deleteLog[i].name
                                 => Listed(documents', documents[k].name)
                  ELSE documents' = documents
       /\ (listReq' = listReq /\ documents' # documents) =>
            \E i \in 1..Len(deleteLog) :
                /\ deleteLog[i].confirmed
                /\ deleteLog[i].outcome = "pending"
                /\ deleteLog'[i].outcome = "success"]_vars

\* C11 witness: of two listed documents, the delete of one was cancelled and
\* the delete of the other was confirmed and succeeded: only the first is
\* still listed.
C11_Witness ==
    /\ Len(documents) = 1
    /\ \E i, j \in 1..Len(deleteLog) :
          /\ deleteLog[i].outcome = "success"
          /\ ~deleteLog[j].confirmed
          /\ deleteLog[j].name = documents[1].name
          /\ deleteLog[i].name # documents[1].name

\* C14: a listing of the form [{name, chunk_count}] is rendered without an
\* error, as one card per element once it is loaded.
C14_ListingRenders ==
    (\A k \in 1..Len(documents) : DOMAIN documents[k] = {"name", "chunk_count"})
        => LET v == RenderDocuments(documents, docsLoading)
           IN  /\ v.view # "error"
               /\ ~docsLoading => Len(v.cards) = Len(documents)

\* C19: the status starts as 'checking'; it is 'checking' exactly while the
\* health request of the page load is pending, 'connected' exactly when that
\* request succeeded and 'disconnected' exactly when it failed; once it has
\* left 'checking' it never changes again; and it eventually leaves
\* 'checking'.
C19_StatusBadge ==
    /\ backendStatus = "checking"
    /\ [](/\ backendStatus = "checking" <=> healthReq = "pending"
          /\ backendStatus = "connected" <=> healthReq = "ok"
          /\ backendStatus = "disconnected" <=> healthReq = "failed")
    /\ [][backendStatus # "checking" => backendStatus' = backendStatus]_vars
    /\ (backendStatus = "checking") ~> (backendStatus # "checking")

\* C19 witness: the health check failed and the badge shows 'disconnected',
\* with the listing loaded.
C19_Witness ==
    /\ backendStatus = "disconnected"
    /\ healthReq = "failed"
    /\ listReq = "settled"

(***************************************************************************)
(* Claims about the upload of a selection.                                 *)
(***************************************************************************)
\* C18: every entry of the upload queue and every upload request in flight is
\* for a file whose name ends with '.pdf'; and handling a selection without
\* such a file issues no request and leaves the upload queue unchanged.
C18_OnlyPdfUploaded ==
    /\ [](/\ \A k \in 1..Len(uploadQueue) : uploadQueue[k].name.ext = "pdf"
          /\ \A i \in inflight : batch[i].name.ext = "pdf")
    /\ [][\A files \in Selections :
             (handleFileUpload(files) /\ \A k \in 1..Len(files) : files[k].ext # "pdf")
                 => UNCHANGED <<uploadQueue, inflight, pending, active>>]_vars

\* C18 witness: a selection held a file that is no PDF; it was excluded, and
\* the uploads of the PDF files are in flight.
C18_Witness ==
    /\ alertShown.kind = "excluded"
    /\ alertShown.a = 1
    /\ Cardinality(inflight) > 1
    /\ Len(uploadQueue) = Cardinality(inflight)

\* C20: when a batch has finished, the summary reports as completed the number
\* of uploads that succeeded and as failed the number that were rejected,
\* which add up to the batch size, and the all-success message is shown only
\* if no upload failed.
C20_BatchSummary ==
    runPc = "clearWait" =>
        LET succeeded == Cardinality({i \in 1..Len(batch) : outcome[i] = "ok"})
            rejected == Cardinality({i \in 1..Len(batch) : outcome[i] = "fail"})
        IN  /\ summary.completed = succeeded
            /\ summary.failed = rejected
            /\ summary.completed + summary.failed = Len(batch)
            /\ alertShown.kind = "allUploaded" => rejected = 0

(***************************************************************************)
(* Claims about the scope and the citations of a chat.                     *)
(***************************************************************************)
\* C12: every ask request of a chat opened on a document card carries that
\* document's name as doc_name, every ask request of the global chat carries
\* doc_name = null, and the docName of the chat never changes.
C12_QueryScoping ==
    /\ [](askReq # NoReq =>
             askReq.doc_name = (IF location = GlobalChat THEN "null"
                                ELSE location.docName))
    /\ [][docName' = docName /\ location' = location]_vars

\* C12 witness: the second question of a chat opened on a document card is in
\* flight, scoped to that document.
C12_Witness ==
    /\ location = CardChat("doc1.pdf")
    /\ Len(askLog) >= 2
    /\ askReq # NoReq
    /\ askReq.doc_name = "doc1.pdf"

SourceFields == {"doc_name", "page", "toc_section", "confidence"}

\* C13: every source of an assistant reply with a non-empty sources list is
\* shown with its document name, page, section and confidence score.
C13_CitationsShown ==
    \A k \in 1..Len(messages) :
        (messages[k].type = "assistant" /\ Len(messages[k].sources) > 0) =>
            /\ Len(SourcesShown(messages[k])) = Len(messages[k].sources)
            /\ \A j \in 1..Len(messages[k].sources), f \in SourceFields :
                  /\ f \in DOMAIN SourcesShown(messages[k])[j]
                  /\ SourcesShown(messages[k])[j][f] = messages[k].sources[j][f]

(***************************************************************************)
(* Claims about the Electron main process.                                 *)
(***************************************************************************)
\* C15: every check-backend-status invocation resolves, with true exactly
\* when the GET /health request completed with a success status, and with
\* false when it failed or completed with another status.
C15_StatusCheck ==
    \A k \in 1..Len(ipcLog) :
        /\ ipcLog[k].reply.settled = "resolved"
        /\ ipcLog[k].reply.value <=>
              (ipcLog[k].fetch.kind = "response" /\ ipcLog[k].fetch.status \in 200..299)

\* C15 witness: one invocation found the backend healthy, another could not
\* reach it.
C15_Witness ==
    \E j, k \in 1..Len(ipcLog) :
        /\ ipcLog[j].fetch = FetchResponse(200) /\ ipcLog[j].reply.value
        /\ ipcLog[k].fetch = FetchError /\ ~ipcLog[k].reply.value

\* C16: whenever the app has quit after the backend process was spawned, a
\* kill has been issued to it, after the spawn.
C16_BackendKilledOnQuit ==
    (appState = "quit" /\ Count(mainLog, "spawn") > 0) =>
        \E i, k \in 1..Len(mainLog) :
            i < k /\ mainLog[i] = "spawn" /\ mainLog[k] = "kill"

\* C16 witness: the app has quit after its window was shown, and the backend
\* was killed.
C16_Witness ==
    /\ appState = "quit"
    /\ Count(mainLog, "createWindow") > 0
    /\ Count(mainLog, "kill") = 1

\* C17: every window is created after the backend process was spawned and
\* after the 3-second startup timer elapsed.
C17_StartupOrdering ==
    \A k \in 1..Len(mainLog) :
        mainLog[k] = "createWindow" =>
            /\ \E i \in 1..(k - 1) : mainLog[i] = "spawn"
            /\ \E j \in 1..(k - 1) : mainLog[j] = "timer"

(***************************************************************************)
(* Claims about the home page with list, delete and upload together.       *)
(***************************************************************************)
\* C21: a document whose delete has succeeded, that has been removed from the
\* displayed list and has not been uploaded since, is not put back into the
\* displayed list by any step, the settling of a listing request that was in
\* flight when the delete was issued included.
C21_NoResurrection ==
    [][\A d \in gone : ~Listed(documents, d) => ~Listed(documents', d)]_vars

(***************************************************************************)
(* Claims about the windows of the main process.                           *)
(***************************************************************************)
\* C22: at most one main window exists at any time, and mainWindow refers to
\* no window (it is null, or not yet assigned) exactly when no window is
\* open.
C22_SingleMainWindow ==
    /\ windows <= 1
    /\ mainWindow \in {"null", "undefined"} <=> windows = 0

(***************************************************************************)
(* Claims about the entries of the upload queue.                           *)
(***************************************************************************)
\* C23: a step of a batch that updates the upload queue changes only the
\* entries of the files whose upload caused it: the files whose request the
\* step issued or settled, or, for a progress event, one file in flight.
C23_UpdatesOwnEntryOnly ==
    [][(Len(uploadQueue) > 0 /\ Len(uploadQueue') = Len(uploadQueue)) =>
          LET changed == {k \in 1..Len(uploadQueue) : uploadQueue'[k] # uploadQueue[k]}
              started == Range(startOrder') \ Range(startOrder)
              settled == {i \in 1..Len(outcome) :
                             outcome[i] = "none" /\ outcome'[i] # "none"}
          IN  IF nProgress' # nProgress
              THEN changed \subseteq inflight /\ Cardinality(changed) <= 1
              ELSE changed \subseteq (started \cup settled)]_vars

(***************************************************************************)
(* Claims about the requests of the chat page.                             *)
(***************************************************************************)
Pending == {r \in 1..Len(askLog) : askLog[r].outcome = "pending"}

\* C24: at most one ask request of the chat page is pending at any time, and
\* a send action taken while a request is pending issues no request and
\* appends no message.
C24_OneAskInFlight ==
    /\ [](/\ Cardinality(Pending) <= 1
          /\ Pending = IF askReq = NoReq THEN {} ELSE {askReq.id})
    /\ [][(askReq # NoReq /\ handleSend) => UNCHANGED <<messages, askReq, askLog>>]_vars

\* C24 witness: a second question is pending after the first one settled, the
\* page is loading and the input is empty.
C24_Witness ==
    /\ askReq # NoReq
    /\ askReq.id = 2
    /\ loading
    /\ inputValue = <<>>
    /\ Len(messages) = 3

\* C30: loading is true exactly while an ask request is in flight: sending a
\* question sets it, and the settling of the request, by an answer, a failure
\* or a timeout, clears it, so that the next question can be sent.
C30_LoadingWhileInFlight ==
    /\ [](loading <=> askReq # NoReq)
    /\ [][/\ Len(askLog') > Len(askLog) => (~loading /\ loading')
          /\ \A r \in Pending :
                askLog'[r].outcome # "pending" => (loading /\ ~loading')]_vars

\* C30 witness: the first question failed, the second was then sent and
\* answered, and the page is not loading.
C30_Witness ==
    /\ Len(askLog) >= 2
    /\ askLog[1].outcome = "failed"
    /\ askLog[2].outcome = "ok"
    /\ ~loading

(***************************************************************************)
(* Claims about the run of a batch.                                        *)
(***************************************************************************)
\* C25: no file of a batch has its upload request issued twice; every file is
\* either still waiting or has had its request issued, and an issued request
\* is in flight or has settled; and when the scheduler loop has ended every
\* file of the batch has had its request issued, whatever the outcomes.
C25_ExactlyOnceUpload ==
    /\ \A a, b \in 1..Len(startOrder) : startOrder[a] = startOrder[b] => a = b
    /\ Range(pending) \cup Range(startOrder) = 1..Len(batch)
    /\ Range(pending) \cap Range(startOrder) = {}
    /\ inflight \cup Settled = Range(startOrder)
    /\ inflight \cap Settled = {}
    /\ runPc \in {"refreshing", "clearWait"} =>
          /\ Range(startOrder) = 1..Len(batch)
          /\ Settled = 1..Len(batch)

\* C25 witness: the loop of a batch of more files than slots has ended, with
\* uploads that failed and uploads that succeeded.
C25_Witness ==
    /\ runPc = "refreshing"
    /\ Len(batch) > maxConcurrent
    /\ Len(startOrder) = Len(batch)
    /\ \E i, j \in 1..Len(batch) : outcome[i] = "fail" /\ outcome[j] = "ok"

BatchRunning == runPc # "idle"

StatusMove(from, to) ==
    \/ to = from
    \/ from = "waiting" /\ to = "uploading"
    \/ from = "uploading" /\ to \in {"completed", "error"}

\* C27: an entry of the upload queue is 'waiting' exactly until the request
\* of its file is issued and 'uploading' exactly while that request is in
\* flight; its progress is 100 whenever it is 'completed'; and as long as the
\* queue is not cleared its status only moves waiting -> uploading ->
\* completed or error, so that a 'completed' or 'error' entry stays as it is.
C27_EntryLifecycle ==
    /\ [](\A k \in 1..Len(uploadQueue) :
              /\ uploadQueue[k].status = "waiting" <=> k \notin Range(startOrder)
              /\ uploadQueue[k].status = "uploading" <=> k \in inflight
              /\ uploadQueue[k].status = "completed" => uploadQueue[k].progress = 100)
    /\ [][Len(uploadQueue') = Len(uploadQueue) =>
             \A k \in 1..Len(uploadQueue) :
                 StatusMove(uploadQueue[k].status, uploadQueue'[k].status)]_vars

SummaryKinds == {"allUploaded", "doneAndFailed"}

\* C29: loadDocuments is called for a batch only when the scheduler loop has
\* ended with no file waiting, none in flight and every upload settled; the
\* batch then waits for that one listing and for nothing else, the list
\* changes only when it settles, and the summary is shown by the step in
\* which it settles and by no other; a new refresh needs a new batch.
C29_RefreshAfterBatch ==
    /\ [](runPc = "refreshing" =>
              pending = <<>> /\ inflight = {} /\ Settled = 1..Len(batch))
    /\ [][/\ (runPc # "refreshing" /\ runPc' = "refreshing") => runPc = "waitTimer"
          /\ runPc = "refreshing" => runPc' \in {"refreshing", "clearWait"}
          /\ runPc = "clearWait" => runPc' \in {"clearWait", "idle"}
          /\ runPc = "idle" => runPc' \in {"idle", "waitTimer"}
          /\ (documents' # documents \/ alertShown'.kind \in SummaryKinds) =>
                (runPc = "refreshing" /\ runPc' = "clearWait")]_vars

\* C29 witness: the refresh of a batch of more files than slots has loaded
\* the list, and the summary is on screen.
C29_Witness ==
    /\ runPc = "clearWait"
    /\ alertShown.kind \in SummaryKinds
    /\ Len(documents) > 0
    /\ Len(batch) > maxConcurrent

(***************************************************************************)
(* Claims about batches and navigation.                                    *)
(***************************************************************************)
\* A run has uploads waiting or in flight.
Busy(pend, act) == pend # <<>> \/ act # {}

\* C28: a batch is started only while the upload queue is empty; at no time
\* do two runs of uploadWithConcurrency have uploads waiting or in flight,
\* leaving the page for the chat and coming back included; and a non-empty
\* upload queue is emptied only by the delayed clear of its own batch (or by
\* leaving the page).
C28_OneBatchAtATime ==
    /\ [](~(Busy(pending, inflight) /\ Busy(detached.pending, detached.active)))
    /\ [][/\ (runPc # "waitTimer" /\ runPc' = "waitTimer") => uploadQueue = <<>>
          /\ (uploadQueue # <<>> /\ uploadQueue' = <<>>) =>
                \/ runPc = "clearWait" /\ runPc' = "idle" /\ batch' = batch
                \/ batch' = <<>>]_vars

====
